---- MODULE Spec2Model ----
(***************************************************************************)
(* Model of the option functions and of constructPublishing               *)
(* (src/message.go) and of the dial wrappers (src/conn/dialers.go).       *)
(*                                                                         *)
(* Durations are counted in seconds.  Strings of the source are kept as   *)
(* strings; function values (hooks, loggers, builders) are named by       *)
(* strings.  The variable applied is a history of the option calls made   *)
(* so far; lookups and encodes are histories of the registry lookups and  *)
(* encoder calls made by the last constructPublishing call.               *)
(***************************************************************************)
EXTENDS Integers, Sequences, FiniteSets, TLC

VARIABLES
    opts,        \* the options struct being built
    applied,     \* history: the option calls applied to opts, in order
    registry,    \* codecs.Register: the content types that have a codec
    clock,       \* time.Now(), also the number of constructPublishing calls
    args,        \* arguments of the last constructPublishing call
    callOpts,    \* opts.msgOpts as configured when that call was made
    msg,         \* amqp.Publishing returned by the last call
    err,         \* error returned by the last call
    lookups,     \* content types passed to codecs.Register.Get by the last call
    encodes,     \* values passed to codec.Encode by the last call
    dialed,      \* which dial function was called ("none" before the call)
    dialArg,     \* the properties table the caller supplied to it
    dialer,      \* the Dialer handed to DialWithDialer
    ret,         \* what the dial function returned
    c            \* the Connection made by newConnection

optVars  == <<opts, applied>>
msgVars  == <<registry, clock, args, callOpts, msg, err, lookups, encodes>>
dialVars == <<dialed, dialArg, dialer, ret, c>>
vars     == <<opts, applied, registry, clock, args, callOpts, msg, err,
              lookups, encodes, dialed, dialArg, dialer, ret, c>>

(***************************************************************************)
(* Bounds of the model.                                                    *)
(***************************************************************************)
MaxOptions == 2
MaxClock == 2
MaxAttempts == 2

(***************************************************************************)
(* Constants of the program.                                               *)
(***************************************************************************)
MaxMessagePriority == 9
MinMessagePriority == 0
defaultWaitDeadline == 5
defaultEventBuffer == 1
defaultHandlerAmount == 1

Nil == "nil"
CodecNotFound == "codec not found"
EncodeError == "encode error"

(***************************************************************************)
(* Inputs.                                                                 *)
(***************************************************************************)
\* uint8 priorities: both ends of the default range, one inside, one above.
PriorityArgs == {MinMessagePriority, 5, MaxMessagePriority, MaxMessagePriority + 1}
\* time.Duration is a signed integer: negative, zero and positive timeouts.
TimeoutArgs == {-1, 0, 1, 2, defaultWaitDeadline}
HandlersArgs == {-1, 0, 1, 2}
BufferArgs == {0, 2}
Hooks == {"h1", "h2"}
HookArgs == {<<>>} \cup {<<h>> : h \in Hooks} \cup {<<g, h>> : g, h \in Hooks}
SniffedEmpty == "text/plain; charset=utf-8"
ContentTypes == {"", "application/json", SniffedEmpty}
\* A value either implements ContentTyper (and then declares ct) or does not.
Values == {[typer |-> FALSE, ct |-> ""]} \cup {[typer |-> TRUE, ct |-> t] : t \in ContentTypes}
\* What codec.Encode may return: bytes, no bytes, or an error.
EncodeOutcomes == {[body |-> <<1, 2>>, err |-> Nil],
                   [body |-> <<>>, err |-> Nil],
                   [body |-> <<>>, err |-> EncodeError]}

(***************************************************************************)
(* Options (src/message.go, lines 53-287).                                 *)
(***************************************************************************)
defaultOptions ==
    [wait |-> [flag |-> FALSE, timeout |-> defaultWaitDeadline],
     timeout |-> [base |-> 0, cap |-> 0],
     subEventChanBuffer |-> defaultEventBuffer,
     log |-> [debug |-> "NoopLogger", info |-> "NoopLogger",
              warn |-> "NoopLogger", error |-> "NoopLogger"],
     context |-> "Background",
     msgOpts |-> [idBuilder |-> "noopMessageIdBuilder",
                  typer |-> "noopTyper",
                  minPriority |-> MinMessagePriority,
                  maxPriority |-> MaxMessagePriority,
                  applicationId |-> "",
                  userId |-> "",
                  pubBefore |-> <<>>,
                  deliveryBefore |-> <<>>,
                  defaultContentType |-> "application/json"],
     processAllDeliveries |-> FALSE,
     handlersAmount |-> defaultHandlerAmount,
     errorBefore |-> <<>>,
     lazyCommands |-> FALSE,
     connOpts |-> <<>>]

\* An option function is applied to the options: the call joins the history,
\* and nothing but the options changes.
Applied(name, a) ==
    /\ Len(applied) < MaxOptions
    /\ applied' = Append(applied, [name |-> name, args |-> a])
    /\ UNCHANGED <<msgVars, dialVars>>

WaitConnectionAlwaysSets(should, timeout) ==
    /\ opts' = [opts EXCEPT !.wait.flag = should, !.wait.timeout = timeout]
    /\ Applied("WaitConnection", [should |-> should, timeout |-> timeout])

WaitConnection(should, timeout) ==
    /\ opts' = IF timeout # 0
               THEN [opts EXCEPT !.wait.flag = should, !.wait.timeout = timeout]
               ELSE [opts EXCEPT !.wait.flag = should]
    /\ Applied("WaitConnection", [should |-> should, timeout |-> timeout])

EventChanBuffer(a) ==
    /\ opts' = [opts EXCEPT !.subEventChanBuffer = a]
    /\ Applied("EventChanBuffer", a)

Context(ctx) ==
    /\ opts' = [opts EXCEPT !.context = ctx]
    /\ Applied("Context", ctx)

SetMessageIdBuilder(builder) ==
    /\ opts' = [opts EXCEPT !.msgOpts.idBuilder = builder]
    /\ Applied("SetMessageIdBuilder", builder)

AllowedPriority(from, to) ==
    /\ opts' = [opts EXCEPT !.msgOpts.minPriority = from, !.msgOpts.maxPriority = to]
    /\ Applied("AllowedPriority", [from |-> from, to |-> to])

ApplicationId(id) ==
    /\ opts' = [opts EXCEPT !.msgOpts.applicationId = id]
    /\ Applied("ApplicationId", id)

UserId(id) ==
    /\ opts' = [opts EXCEPT !.msgOpts.userId = id]
    /\ Applied("UserId", id)

InfoLogger(lg) ==
    /\ opts' = [opts EXCEPT !.log.info = lg]
    /\ Applied("InfoLogger", lg)

DebugLogger(lg) ==
    /\ opts' = [opts EXCEPT !.log.debug = lg]
    /\ Applied("DebugLogger", lg)

ErrorLogger(lg) ==
    /\ opts' = [opts EXCEPT !.log.error = lg]
    /\ Applied("ErrorLogger", lg)

WarnLogger(lg) ==
    /\ opts' = [opts EXCEPT !.log.warn = lg]
    /\ Applied("WarnLogger", lg)

AllLoggers(lg) ==
    /\ opts' = [opts EXCEPT !.log.info = lg, !.log.debug = lg, !.log.error = lg, !.log.warn = lg]
    /\ Applied("AllLoggers", lg)

\* for i := range before { chain = append(chain, before[i]) }
RECURSIVE AppendEach(_, _)
AppendEach(chain, before) ==
    IF before = <<>> THEN chain
    ELSE AppendEach(Append(chain, Head(before)), Tail(before))

PublishBeforeReplaces(before) ==
    /\ opts' = [opts EXCEPT !.msgOpts.pubBefore = AppendEach(<<>>, before)]
    /\ Applied("PublishBefore", before)

PublishBefore(before) ==
    /\ opts' = [opts EXCEPT !.msgOpts.pubBefore = AppendEach(opts.msgOpts.pubBefore, before)]
    /\ Applied("PublishBefore", before)

DeliverBefore(before) ==
    /\ opts' = [opts EXCEPT !.msgOpts.deliveryBefore = AppendEach(opts.msgOpts.deliveryBefore, before)]
    /\ Applied("DeliverBefore", before)

ProcessAllDeliveries(v) ==
    /\ opts' = [opts EXCEPT !.processAllDeliveries = v]
    /\ Applied("ProcessAllDeliveries", v)

HandlersAmountNoGuard(n) ==
    /\ opts' = [opts EXCEPT !.handlersAmount = n]
    /\ Applied("HandlersAmount", n)

HandlersAmount(n) ==
    /\ opts' = IF n > 0
               THEN [opts EXCEPT !.handlersAmount = n]
               ELSE opts
    /\ Applied("HandlersAmount", n)

LazyDeclaring(v) ==
    /\ opts' = [opts EXCEPT !.lazyCommands = v]
    /\ Applied("LazyDeclaring", v)

SetDefaultContentType(t) ==
    /\ opts' = [opts EXCEPT !.msgOpts.defaultContentType = t]
    /\ Applied("SetDefaultContentType", t)

(***************************************************************************)
(* Message construction (src/message.go, lines 1-51).                      *)
(***************************************************************************)
\* codecs.Register.Get(contentType): the second result, whether a codec is found.
RegisterGet(regs, contentType) == contentType \in regs

\* http.DetectContentType: data of length 0 is sniffed as plain text; any
\* other data met here is an opaque encoded body.
DetectContentType(data) ==
    IF Len(data) = 0 THEN SniffedEmpty ELSE "application/octet-stream"

zeroPublishing == [Timestamp |-> 0, Priority |-> 0, ContentType |-> "", Body |-> <<>>]

ResolveDefaultFirst(v, defaultContentType, body) ==
    IF defaultContentType # ""
    THEN [ContentType |-> defaultContentType, contentType |-> defaultContentType]
    ELSE IF v.typer
    THEN [ContentType |-> v.ct, contentType |-> v.ct]
    ELSE [ContentType |-> DetectContentType(body), contentType |-> ""]

\* Lines 34-43: ContentType is the field stamped on the message, contentType
\* the local variable later handed to the registry.
Resolve(v, defaultContentType, body) ==
    IF v.typer
    THEN [ContentType |-> v.ct, contentType |-> v.ct]
    ELSE IF defaultContentType # ""
    THEN [ContentType |-> defaultContentType, contentType |-> defaultContentType]
    ELSE [ContentType |-> DetectContentType(body), contentType |-> ""]

constructPublishingEncodesOnMiss(v, priority, defaultContentType, now, regs, enc) ==
    LET r == Resolve(v, defaultContentType, zeroPublishing.Body)
        m == [zeroPublishing EXCEPT !.Timestamp = now, !.Priority = priority,
                                    !.ContentType = r.ContentType]
    IN  [msg |-> [m EXCEPT !.Body = enc.body],
         err |-> IF RegisterGet(regs, r.contentType) THEN enc.err ELSE CodecNotFound,
         lookups |-> <<r.contentType>>,
         encodes |-> <<v>>]

\* The whole function: the message and error it returns, and the registry
\* lookups and encoder calls it made.  enc is what codec.Encode(v) returns.
constructPublishing(v, priority, defaultContentType, now, regs, enc) ==
    LET r == Resolve(v, defaultContentType, zeroPublishing.Body)
        m == [zeroPublishing EXCEPT !.Timestamp = now, !.Priority = priority,
                                    !.ContentType = r.ContentType]
    IN  IF ~RegisterGet(regs, r.contentType)
        THEN [msg |-> m, err |-> CodecNotFound,
              lookups |-> <<r.contentType>>, encodes |-> <<>>]
        ELSE [msg |-> [m EXCEPT !.Body = enc.body], err |-> enc.err,
              lookups |-> <<r.contentType>>, encodes |-> <<v>>]

\* A caller constructs a message.
ConstructPublishing ==
    \E v \in Values, priority \in PriorityArgs,
       defaultContentType \in ContentTypes, enc \in EncodeOutcomes :
        /\ clock < MaxClock
        /\ LET r == constructPublishing(v, priority, defaultContentType,
                                        clock + 1, registry, enc)
           IN  /\ msg' = r.msg
               /\ err' = r.err
               /\ lookups' = r.lookups
               /\ encodes' = r.encodes
        /\ args' = [v |-> v, priority |-> priority,
                    defaultContentType |-> defaultContentType]
        /\ callOpts' = opts.msgOpts
        /\ clock' = clock + 1
        /\ UNCHANGED <<registry, optVars, dialVars>>

(***************************************************************************)
(* Dial wrappers (src/conn/dialers.go).                                    *)
(***************************************************************************)
defaultProduct == "https://github.com/rifaniponk/amqp"
defaultVersion == "v1.2.0"
defaultPlatform == "golang"
defaultInformation == "AMQP lib github.com/rifaniponk/amqp for golang on top of https://github.com/streadway/amqp"
defaultLocale == "en_US"

\* An amqp.Table: a nil map, or a map from keys to values.
PropertyKeys == {"product", "version", "platform", "information", "locale"}
NilTable == [isNil |-> TRUE, kv |-> [k \in {} |-> ""]]
EmptyTable == [isNil |-> FALSE, kv |-> [k \in {} |-> ""]]
PropInputs ==
    {NilTable} \cup
    {[isNil |-> FALSE, kv |-> [k \in S |-> "mine"]] : S \in SUBSET PropertyKeys}

TableLen(t) == Cardinality(DOMAIN t.kv)
TableHas(t, k) == k \in DOMAIN t.kv
TablePut(t, k, val) ==
    [t EXCEPT !.kv = [x \in (DOMAIN t.kv) \cup {k} |-> IF x = k THEN val ELSE t.kv[x]]]
PutIfAbsent(t, k, val) == IF TableHas(t, k) THEN t ELSE TablePut(t, k, val)

setupDefaultConfigProperties(prop) ==
    LET p0 == IF TableLen(prop) = 0 THEN EmptyTable ELSE prop
        p1 == PutIfAbsent(p0, "product", defaultProduct)
        p2 == PutIfAbsent(p1, "version", defaultVersion)
        p3 == PutIfAbsent(p2, "platform", defaultPlatform)
    IN  PutIfAbsent(p3, "information", defaultInformation)

\* newConnection(opts...): a connection that holds no transport yet.
newConnection ==
    [state |-> "new", attempts |-> 0, generation |-> 0]

\* c.connect(dialer): the connection starts dialing; the attempts are the
\* steps DialAttemptFails and DialAttemptSucceeds below.
connect(conn) == [conn EXCEPT !.state = "connecting"]

DialWithDialerReturnsDialError(name, d, prop) ==
    /\ dialed' = name
    /\ dialArg' = prop
    /\ dialer' = d
    /\ \/ /\ c' = [connect(newConnection) EXCEPT !.state = "connected", !.attempts = 1,
                                                 !.generation = 1]
          /\ ret' = [conn |-> "c", err |-> Nil]
       \/ /\ c' = [connect(newConnection) EXCEPT !.attempts = 1]
          /\ ret' = [conn |-> Nil, err |-> "dial error"]
    /\ UNCHANGED <<optVars, msgVars>>

\* name is the exported function that was called, prop the table its caller gave.
DialWithDialer(name, d, prop) ==
    /\ dialed' = name
    /\ dialArg' = prop
    /\ dialer' = d
    /\ c' = connect(newConnection)
    /\ ret' = [conn |-> "c", err |-> Nil]
    /\ UNCHANGED <<optVars, msgVars>>

\* A behaviour holds one dial call.
NotDialed == dialed = "none"

CallDialWithDialer ==
    /\ NotDialed
    /\ DialWithDialer("DialWithDialer", [fn |-> "custom", props |-> NilTable], NilTable)

Dial(name) ==
    /\ NotDialed
    /\ DialWithDialer(name, [fn |-> "amqp.Dial", props |-> NilTable], NilTable)

DialTLS ==
    /\ NotDialed
    /\ DialWithDialer("DialTLS", [fn |-> "amqp.DialTLS", props |-> NilTable], NilTable)

DialConfig(name, prop) ==
    /\ NotDialed
    /\ DialWithDialer(name,
                      [fn |-> "amqp.DialConfig",
                       props |-> setupDefaultConfigProperties(prop)],
                      prop)

\* Open hands the caller's configuration to amqp.Open as it is.
Open(prop) ==
    /\ NotDialed
    /\ DialWithDialer("Open", [fn |-> "amqp.Open", props |-> prop], prop)

\* Connect dials with the configuration newConnection built, and has no
\* error result.
Connect(name, prop) ==
    /\ NotDialed
    /\ dialed' = name
    /\ dialArg' = prop
    /\ dialer' = [fn |-> "amqp.DialConfig", props |-> prop]
    /\ c' = connect(newConnection)
    /\ ret' = [conn |-> "c", err |-> Nil]
    /\ UNCHANGED <<optVars, msgVars>>

DefaultConnector ==
    /\ NotDialed
    /\ Dial("DefaultConnector")

ConfigConnector(prop) ==
    /\ NotDialed
    /\ DialConfig("ConfigConnector", prop)

NewConnector(prop) ==
    /\ NotDialed
    /\ Connect("NewConnector", prop)

\* The retry loop started by connect: an attempt of the dialer fails ...
DialAttemptFails ==
    /\ c.state = "connecting"
    /\ c.attempts < MaxAttempts
    /\ c' = [c EXCEPT !.attempts = @ + 1]
    /\ UNCHANGED <<dialed, dialArg, dialer, ret, optVars, msgVars>>

\* ... or yields a transport, which the connection stores ...
DialAttemptSucceeds ==
    /\ c.state = "connecting"
    /\ c.attempts < MaxAttempts
    /\ c' = [c EXCEPT !.attempts = @ + 1, !.state = "connected", !.generation = @ + 1]
    /\ UNCHANGED <<dialed, dialArg, dialer, ret, optVars, msgVars>>

\* ... and when the transport reports its closure the loop starts again.
TransportClosed ==
    /\ c.state = "connected"
    /\ c' = [c EXCEPT !.state = "connecting"]
    /\ UNCHANGED <<dialed, dialArg, dialer, ret, optVars, msgVars>>

(***************************************************************************)
(* Specifications.                                                         *)
(***************************************************************************)
InitOptions ==
    /\ opts = defaultOptions
    /\ applied = <<>>

InitMessage ==
    /\ clock = 0
    /\ args = [v |-> [typer |-> FALSE, ct |-> ""], priority |-> 0,
               defaultContentType |-> ""]
    /\ callOpts = defaultOptions.msgOpts
    /\ msg = zeroPublishing
    /\ err = Nil
    /\ lookups = <<>>
    /\ encodes = <<>>

InitDial ==
    /\ dialed = "none"
    /\ dialArg = NilTable
    /\ dialer = [fn |-> "none", props |-> NilTable]
    /\ ret = [conn |-> Nil, err |-> Nil]
    /\ c = newConnection

\* No codec is registered.
Init == InitOptions /\ InitMessage /\ InitDial /\ registry = {}

\* Any set of content types may have a registered codec.
InitRegistered == InitOptions /\ InitMessage /\ InitDial /\ registry \in SUBSET ContentTypes

\* Every option function, applied in any order.
NextOptions ==
    \/ \E should \in BOOLEAN, timeout \in TimeoutArgs : WaitConnection(should, timeout)
    \/ \E a \in BufferArgs : EventChanBuffer(a)
    \/ Context("ctx")
    \/ SetMessageIdBuilder("CommonMessageIdBuilder")
    \/ \E from \in PriorityArgs, to \in PriorityArgs : AllowedPriority(from, to)
    \/ ApplicationId("app")
    \/ UserId("user")
    \/ InfoLogger("lg")
    \/ DebugLogger("lg")
    \/ ErrorLogger("lg")
    \/ WarnLogger("lg")
    \/ AllLoggers("lg")
    \/ \E before \in HookArgs : PublishBefore(before)
    \/ \E before \in HookArgs : DeliverBefore(before)
    \/ \E v \in BOOLEAN : ProcessAllDeliveries(v)
    \/ \E n \in HandlersArgs : HandlersAmount(n)
    \/ \E v \in BOOLEAN : LazyDeclaring(v)
    \/ \E t \in ContentTypes : SetDefaultContentType(t)

SpecOptions == Init /\ [][NextOptions]_vars

\* Sequences of PublishBefore and DeliverBefore.
NextHooks ==
    \/ \E before \in HookArgs : PublishBefore(before)
    \/ \E before \in HookArgs : DeliverBefore(before)

SpecHooks == Init /\ [][NextHooks]_vars

\* Sequences of WaitConnection.
NextWait ==
    \E should \in BOOLEAN, timeout \in TimeoutArgs : WaitConnection(should, timeout)

SpecWait == Init /\ [][NextWait]_vars

\* Messages constructed under the default options.
NextMessage == ConstructPublishing

SpecMessage == InitRegistered /\ [][NextMessage]_vars

\* One dial call, then the connection's retry loop.
NextDial ==
    \/ CallDialWithDialer
    \/ Dial("Dial")
    \/ DialTLS
    \/ \E prop \in PropInputs : DialConfig("DialConfig", prop)
    \/ \E prop \in PropInputs : Open(prop)
    \/ \E prop \in PropInputs : Connect("Connect", prop)
    \/ DefaultConnector
    \/ \E prop \in PropInputs : ConfigConnector(prop)
    \/ \E prop \in PropInputs : NewConnector(prop)
    \/ DialAttemptFails
    \/ DialAttemptSucceeds
    \/ TransportClosed

SpecDial == Init /\ [][NextDial]_vars

(***************************************************************************)
(* Properties of message construction, under SpecMessage.                  *)
(***************************************************************************)
Called == clock > 0

\* C1: whenever the registry has no codec for the content type that
\* constructPublishing looks up, the call returns CodecNotFound, calls no
\* encoder, and the returned message has no body bytes.
C1_CodecNotFound ==
    Called =>
        /\ Len(lookups) = 1
        /\ ~RegisterGet(registry, lookups[1]) =>
               /\ err = CodecNotFound
               /\ encodes = <<>>
               /\ Len(msg.Body) = 0

\* A call that missed although other codecs are registered.
C1_Witness ==
    /\ Called
    /\ registry # {}
    /\ ~RegisterGet(registry, lookups[1])
    /\ err = CodecNotFound

\* C2: for a value that implements ContentTyper, the message content type
\* is exactly the value's ContentType() and the registry is asked for that
\* same string, whatever default content type is given.
C2_TyperVerbatim ==
    (Called /\ args.v.typer) =>
        /\ msg.ContentType = args.v.ct
        /\ lookups = <<args.v.ct>>

\* A ContentTyper value constructed with a different, non-empty default.
C2_Witness ==
    /\ Called
    /\ args.v.typer
    /\ args.defaultContentType # ""
    /\ args.defaultContentType # args.v.ct
    /\ msg.ContentType = args.v.ct

\* C3: in every call, the content type passed to the registry lookup is
\* non-empty.
C3_LookupNonEmpty ==
    Called => \A i \in 1..Len(lookups) : lookups[i] # ""

InRange(p, m) == m.minPriority <= p /\ p <= m.maxPriority

\* C4: for a priority outside the configured range, construction fails
\* before any registry lookup or encoder call; for a priority inside the
\* range with a registered codec, the encoder is reached.
C4_PriorityGate ==
    Called =>
        /\ ~InRange(args.priority, callOpts) =>
               /\ err # Nil
               /\ lookups = <<>>
               /\ encodes = <<>>
        /\ (/\ InRange(args.priority, callOpts)
            /\ \A i \in 1..Len(lookups) : RegisterGet(registry, lookups[i])) =>
               encodes = <<args.v>>

(***************************************************************************)
(* Properties of the dial wrappers, under SpecDial.                        *)
(***************************************************************************)
DefaultProperty(k) ==
    CASE k = "product" -> defaultProduct
      [] k = "version" -> defaultVersion
      [] k = "platform" -> defaultPlatform
      [] k = "information" -> defaultInformation
      [] k = "locale" -> defaultLocale

\* C5: the table DialConfig hands to the dialer holds each of product,
\* version, platform, information and locale: the caller's value where the
\* caller supplied the key, the library default where not.
C5_DefaultProperties ==
    dialed = "DialConfig" =>
        \A k \in PropertyKeys :
            /\ TableHas(dialer.props, k)
            /\ dialer.props.kv[k] =
                   IF TableHas(dialArg, k) THEN dialArg.kv[k] ELSE DefaultProperty(k)

\* C6: every dial function returns a connection and a nil error, whatever
\* the dialer does afterwards or did before.
C6_DialNeverFails ==
    dialed # "none" => (ret.err = Nil /\ ret.conn # Nil)

\* Dial was called and the dialer has failed on every attempt.
C6_Witness ==
    /\ dialed = "Dial"
    /\ c.state = "connecting"
    /\ c.attempts = MaxAttempts
    /\ c.generation = 0
    /\ ret.err = Nil

(***************************************************************************)
(* Properties of the options, under SpecOptions, SpecHooks and SpecWait.   *)
(***************************************************************************)
\* This step applied the option called name.
Stepped(name) ==
    /\ Len(applied') = Len(applied) + 1
    /\ applied'[Len(applied')].name = name

SteppedArgs == applied'[Len(applied')].args

\* C7: after any sequence of options, minPriority <= maxPriority.
C7_PriorityOrdered ==
    opts.msgOpts.minPriority <= opts.msgOpts.maxPriority

\* C8: after any sequence of options handlersAmount >= 1, and
\* HandlersAmount(n) with n <= 0 leaves handlersAmount unchanged.
C8_HandlersAtLeastOne ==
    /\ [](opts.handlersAmount >= 1)
    /\ [][(Stepped("HandlersAmount") /\ SteppedArgs <= 0) =>
              opts'.handlersAmount = opts.handlersAmount]_vars

\* HandlersAmount(2), then HandlersAmount of a number that is not positive.
C8_Witness ==
    /\ Len(applied) = 2
    /\ applied[1].name = "HandlersAmount"
    /\ applied[1].args = 2
    /\ applied[2].name = "HandlersAmount"
    /\ applied[2].args <= 0
    /\ opts.handlersAmount = 2

IsPublishBefore(call) == call.name = "PublishBefore"
IsDeliverBefore(call) == call.name = "DeliverBefore"
IsWaitConnection(call) == call.name = "WaitConnection"

\* The arguments of the calls, joined in the order of the calls.
RECURSIVE Concat(_)
Concat(calls) ==
    IF calls = <<>> THEN <<>> ELSE Head(calls).args \o Concat(Tail(calls))

IsPrefix(s, t) == Len(s) <= Len(t) /\ SubSeq(t, 1, Len(s)) = s

\* C9: the publish-before chain is the concatenation, in application and
\* argument order, of the hooks given to PublishBefore, and likewise the
\* delivery-before chain for DeliverBefore; an option keeps the hooks added
\* earlier in place and leaves the other chain unchanged.
C9_HookChains ==
    /\ [](/\ opts.msgOpts.pubBefore = Concat(SelectSeq(applied, IsPublishBefore))
          /\ opts.msgOpts.deliveryBefore = Concat(SelectSeq(applied, IsDeliverBefore)))
    /\ [][/\ IsPrefix(opts.msgOpts.pubBefore, opts'.msgOpts.pubBefore)
          /\ IsPrefix(opts.msgOpts.deliveryBefore, opts'.msgOpts.deliveryBefore)
          /\ Stepped("PublishBefore") =>
                 opts'.msgOpts.deliveryBefore = opts.msgOpts.deliveryBefore
          /\ Stepped("DeliverBefore") =>
                 opts'.msgOpts.pubBefore = opts.msgOpts.pubBefore]_vars

\* PublishBefore(h2, h1), then PublishBefore(h1).
C9_Witness ==
    /\ Len(applied) = 2
    /\ applied[1] = [name |-> "PublishBefore", args |-> <<"h2", "h1">>]
    /\ applied[2] = [name |-> "PublishBefore", args |-> <<"h1">>]
    /\ opts.msgOpts.pubBefore = <<"h2", "h1", "h1">>
    /\ opts.msgOpts.deliveryBefore = <<>>

\* The timeout of the last call that gave one, or the default.
RECURSIVE LastTimeoutGiven(_)
LastTimeoutGiven(calls) ==
    IF calls = <<>> THEN defaultWaitDeadline
    ELSE IF calls[Len(calls)].args.timeout # 0 THEN calls[Len(calls)].args.timeout
    ELSE LastTimeoutGiven(SubSeq(calls, 1, Len(calls) - 1))

WaitCalls == SelectSeq(applied, IsWaitConnection)

\* C10: after any sequence of WaitConnection options, the wait flag is the
\* should of the last call and the wait timeout is the timeout of the last
\* call whose timeout was not zero, or the 5 second default when there was
\* none; a call with timeout 0 leaves the wait timeout unchanged.
C10_WaitConnection ==
    /\ [](/\ WaitCalls # <<>> =>
                 opts.wait.flag = WaitCalls[Len(WaitCalls)].args.should
          /\ opts.wait.timeout = LastTimeoutGiven(WaitCalls))
    /\ [][(Stepped("WaitConnection") /\ SteppedArgs.timeout = 0) =>
              opts'.wait.timeout = opts.wait.timeout]_vars

\* WaitConnection(true, 2), then WaitConnection(false, 0).
C10_Witness ==
    /\ Len(applied) = 2
    /\ applied[1] = [name |-> "WaitConnection", args |-> [should |-> TRUE, timeout |-> 2]]
    /\ applied[2] = [name |-> "WaitConnection", args |-> [should |-> FALSE, timeout |-> 0]]
    /\ opts.wait.flag = FALSE
    /\ opts.wait.timeout = 2

====
